---- MODULE Spec2Model ----
(***************************************************************************)
(* Verification model of the authentication / authorization pipeline of    *)
(* aiot-shared-packages: the Express JWT gate (AuthMiddleware), the RBAC   *)
(* permission middlewares (PermissionMiddleware), the Socket.IO gate       *)
(* (WebSocketAuthMiddleware), the JWT revocation store                     *)
(* (JwtBlacklistService) and the cache helper (BaseRedisService) beside    *)
(* the Redis connection manager (RedisConnectionManager).                  *)
(*                                                                         *)
(* Strings are sequences of one-character (or one-segment) strings, so     *)
(* startsWith / substring are computed on them.  A JWT is the sequence of  *)
(* its encoded segments; jwt.verify decodes it segment by segment.         *)
(***************************************************************************)
EXTENDS Integers, Sequences, FiniteSets, TLC

\* ------------------------------------------------------------- bounds

\* the clock runs over 0 .. MaxNow (whole seconds)
MaxNow == 2
\* the exp claim carried by tokens that have one
ExpT == 1

\* ------------------------------------------------------- JavaScript values

Undefined == [ty |-> "undefined", v |-> "undefined"]
Num(s) == [ty |-> "number", v |-> s]
Str(s) == [ty |-> "string", v |-> s]

\* JavaScript truthiness of a primitive: undefined, 0 and "" are falsy
Truthy(x) ==
    ~ \/ x.ty = "undefined"
      \/ (x.ty = "number" /\ x.v = "0")
      \/ (x.ty = "string" /\ x.v = "")

\* String(x) as a template literal computes it
StringOf(x) == x.v

\* an absent array-valued claim, and a present one
NoList == [present |-> FALSE, list |-> <<>>]
List(s) == [present |-> TRUE, list |-> s]

\* payload.roles || []
OrEmpty(l) == IF l.present THEN l.list ELSE <<>>

\* Array.prototype.includes
Includes(s, x) == \E i \in 1..Len(s) : s[i] = x

\* startsWith comparing the lengths only
StartsWith_LengthOnly(s, p) == Len(s) >= Len(p)

\* String.prototype.startsWith / substring(k) on character sequences
StartsWith(s, p) == Len(s) >= Len(p) /\ SubSeq(s, 1, Len(p)) = p
Substring(s, k) == SubSeq(s, k + 1, Len(s))

\* ------------------------------------------------------------- tokens

\* The seven segments of an encoded token: the signing secret, then the claims
\* exp, sub, userId, username, roles, permissions ("-" suffix: claim absent).
SigSegs == {"sig:S", "sig:X"}
ExpSegs == {"exp-", "exp:T"}
SubSegs == {"sub-", "sub:0", "sub:42"}
UidSegs == {"uid-", "uid:u1"}
NameSegs == {"name-", "name:alice"}
RoleSegs == {"roles-", "roles:admin"}
PermSegs == {"perms-", "perms:drone"}

\* jwt.sign: the encoded token of a payload signed with a secret
Encode(sig, exp, sub, uid, name, roles, perms) ==
    << sig, exp, sub, uid, name, roles, perms >>

WellFormed(tok) ==
    /\ Len(tok) = 7
    /\ tok[1] \in SigSegs /\ tok[2] \in ExpSegs /\ tok[3] \in SubSegs
    /\ tok[4] \in UidSegs /\ tok[5] \in NameSegs /\ tok[6] \in RoleSegs
    /\ tok[7] \in PermSegs

\* the payload jwt.verify / jwt.decode returns for a well-formed token
NoExp == -1
Payload(tok) ==
    [ exp |-> IF tok[2] = "exp:T" THEN ExpT ELSE NoExp,
      sub |-> CASE tok[3] = "sub:0" -> Num("0")
                [] tok[3] = "sub:42" -> Num("42")
                [] OTHER -> Undefined,
      userId |-> IF tok[4] = "uid:u1" THEN Str("u1") ELSE Undefined,
      username |-> IF tok[5] = "name:alice" THEN Str("alice") ELSE Undefined,
      roles |-> IF tok[6] = "roles:admin" THEN List(<<"admin">>) ELSE NoList,
      permissions |-> IF tok[7] = "perms:drone" THEN List(<<"drone:control">>) ELSE NoList ]

NoPayload ==
    [ exp |-> NoExp, sub |-> Undefined, userId |-> Undefined, username |-> Undefined,
      roles |-> NoList, permissions |-> NoList ]

\* the segment a signature made with the configured secret (JWT_SECRET) carries
ConfiguredSecret == "sig:S"

\* jsonwebtoken's verify(token, secret): malformed, then signature, then expiry
\* (clockTimestamp >= exp); err = "none" when it returns the payload
JwtVerify(tok, secret, t) ==
    IF ~WellFormed(tok) THEN [err |-> "JsonWebTokenError:malformed", payload |-> NoPayload]
    ELSE IF tok[1] # secret THEN [err |-> "JsonWebTokenError:signature", payload |-> NoPayload]
    ELSE IF Payload(tok).exp # NoExp /\ t >= Payload(tok).exp
         THEN [err |-> "TokenExpiredError", payload |-> NoPayload]
    ELSE [err |-> "none", payload |-> Payload(tok)]

\* tokens presented to the HTTP gate: sub is the subject, username and roles
\* come together or not at all
HttpTokens ==
    { Encode(s, e, u, "uid-", nr[1], nr[2], "perms-") :
        s \in SigSegs, e \in ExpSegs, u \in SubSegs,
        nr \in { <<"name-", "roles-">>, <<"name:alice", "roles:admin">> } }

\* tokens presented to the socket gate: userId is the subject
SocketTokens ==
    { Encode(s, e, "sub-", i, n, r, p) :
        s \in SigSegs, e \in ExpSegs, i \in UidSegs, n \in NameSegs, r \in RoleSegs,
        p \in PermSegs }

SocketToken == Encode("sig:S", "exp:T", "sub-", "uid:u1", "name:alice", "roles:admin", "perms-")

\* a string that is no JWT, and the empty string
Garbage == << "g", "a", "r", "b" >>
Empty == << >>

\* ------------------------------------------------------------ requests

\* header prefixes, character by character
BearerPrefix == << "B", "e", "a", "r", "e", "r", " " >>
LowerPrefix == << "b", "e", "a", "r", "e", "r", " " >>
UpperPrefix == << "B", "E", "A", "R", "E", "R", " " >>
BasicPrefix == << "B", "a", "s", "i", "c", " " >>

\* an absent string-valued field of a request
NoStr == [present |-> FALSE, s |-> <<>>]
Some(s) == [present |-> TRUE, s |-> s]

\* req: hasCookies is "req.cookies is defined" (cookie-parser ran), jwt is
\* req.cookies.jwt, authorization is req.headers.authorization; hasHeaders is
\* "req.headers is defined"
Req(hasCookies, jwt, authorization) ==
    [ hasCookies |-> hasCookies, jwt |-> jwt, authorization |-> authorization,
      hasHeaders |-> TRUE ]

\* a request object without a headers property (a bare object handed to the
\* middleware): reading req.headers.authorization raises a TypeError
Headerless(hasCookies, jwt) ==
    [ hasCookies |-> hasCookies, jwt |-> jwt, authorization |-> NoStr,
      hasHeaders |-> FALSE ]

TheToken == Encode("sig:S", "exp:T", "sub:42", "uid-", "name:alice", "roles:admin", "perms-")

Requests ==
    \* no credential at all, with and without cookie-parser
    { Req(FALSE, NoStr, NoStr), Req(TRUE, NoStr, NoStr), Req(TRUE, Some(Empty), NoStr) }
    \* a token in the jwt cookie, or in a Bearer header
    \cup { Req(TRUE, Some(t), NoStr) : t \in HttpTokens \cup {Garbage} }
    \cup { Req(TRUE, NoStr, Some(BearerPrefix \o t)) : t \in HttpTokens \cup {Garbage, Empty} }
    \* headers that are no Bearer header
    \cup { Req(FALSE, NoStr, Some(p \o TheToken)) : p \in {LowerPrefix, UpperPrefix, BasicPrefix} }
    \* both a cookie and a header
    \cup { Req(TRUE, Some(c), Some(BearerPrefix \o TheToken)) : c \in {Garbage, Empty} }
    \cup { Req(TRUE, Some(TheToken), Some(BearerPrefix \o Garbage)) }
    \* no headers object, without and with a jwt cookie
    \cup { Headerless(FALSE, NoStr), Headerless(TRUE, Some(TheToken)) }

\* extractToken: [found, tok]; found = FALSE is the null return
NoToken == [found |-> FALSE, tok |-> <<>>]
Found(t) == [found |-> TRUE, tok |-> t]

\* extractToken without the test of the 'Bearer ' prefix
ExtractToken_AnyScheme(r) ==
    IF r.hasCookies /\ r.jwt.present /\ r.jwt.s # Empty THEN Found(r.jwt.s)
    ELSE IF r.authorization.present /\ r.authorization.s # Empty
         THEN Found(Substring(r.authorization.s, 7))
    ELSE NoToken

\* extractToken with the Authorization header read before the cookie
ExtractToken_HeaderFirst(r) ==
    IF r.authorization.present /\ r.authorization.s # Empty
       /\ StartsWith(r.authorization.s, BearerPrefix)
    THEN Found(Substring(r.authorization.s, 7))
    ELSE IF r.hasCookies /\ r.jwt.present /\ r.jwt.s # Empty THEN Found(r.jwt.s)
    ELSE NoToken

ExtractToken(r) ==
    IF r.hasCookies /\ r.jwt.present /\ r.jwt.s # Empty THEN Found(r.jwt.s)
    ELSE IF r.authorization.present /\ r.authorization.s # Empty
            /\ StartsWith(r.authorization.s, BearerPrefix)
         THEN Found(Substring(r.authorization.s, 7))
    ELSE NoToken

\* extractToken throws: no jwt cookie stops it before req.headers.authorization
\* is read, and req.headers is undefined
ExtractThrows(r) ==
    /\ ~(r.hasCookies /\ r.jwt.present /\ r.jwt.s # Empty)
    /\ ~r.hasHeaders

\* !token in the callers: null and "" are both falsy
TokenFalsy(x) == ~x.found \/ x.tok = Empty

\* verifyToken with jwt.decode in the place of jwt.verify
VerifyToken_DecodeOnly(tok, t) ==
    IF WellFormed(tok) THEN [ok |-> TRUE, payload |-> Payload(tok)]
    ELSE [ok |-> FALSE, payload |-> NoPayload]

\* AuthMiddleware.verifyToken: the decoded payload, or null (ok = FALSE)
VerifyToken(tok, t) ==
    LET r == JwtVerify(tok, ConfiguredSecret, t)
    IN  [ok |-> r.err = "none", payload |-> r.payload]

\* whether the k-th call of next made by a middleware throws
Throws == [1..2 -> BOOLEAN]

\* ------------------------------------------------------------- state

VARIABLES
    now,        \* the clock, whole seconds
    stage,      \* "idle", "arrived", "gated", "authorized"
    req,        \* the request in flight
    mode,       \* the gate that ran on it: "none", "authenticate", "optional"
    user,       \* req.user
    res,        \* what was written to the response
    nextLog,    \* the gate's calls of next, in order: "ok" or "throw"
    escaped,    \* an exception left the gate (its promise rejected)
    gateAt,     \* the time at which the gate read the clock for the request
    pm,         \* the permission middleware that ran on the request
    sock,       \* the socket whose connection attempt is in flight
    sockQuery,  \* the last hasPermission / hasRole asked about the socket, and its answer
    blClient,   \* the revocation service's Redis client: "connecting", "ready", "closed"
    store,      \* the Redis keys of the revocation store, each with its expiry time
    blCall,     \* the last call made on the revocation service, and how it ended
    ledger,     \* history: the tokens revoked and not removed since, each with the
                \* time at which its time to live runs out
    cleanup,    \* the cleanupExpiredTokens call in flight: its position and locals
    clients,    \* the Redis clients createClient has made, each with its socket's state
    mgr,        \* the connection manager singleton: client (0 is null), isConnected
    svc,        \* the BaseRedisService instance: redisClient (0 is null), isRedisAvailable
    cacheCall   \* the last call made on the BaseRedisService instance, and how it ended

vars == << now, stage, req, mode, user, res, nextLog, escaped, gateAt, pm, sock, sockQuery,
           blClient, store, blCall, ledger, cleanup, clients, mgr, svc, cacheCall >>
http == << req, mode, user, res, nextLog, escaped, gateAt, pm >>
revocation == << blClient, store, blCall, ledger, cleanup >>
cache == << clients, mgr, svc, cacheCall >>

NoUser == [set |-> FALSE, id |-> Undefined, username |-> <<>>]
NoRes == [status |-> 0, message |-> "", error |-> "", required |-> <<>>]
Json(status, message) == [status |-> status, message |-> message, error |-> "", required |-> <<>>]

\* req.user = { id: decoded.sub, username: `user_${decoded.sub}` }
IdentityOf(p) == [set |-> TRUE, id |-> p.sub, username |-> << "user_", StringOf(p.sub) >>]

\* no permission middleware ran yet; called, threw and answer record the
\* lookup call: whether it was made, whether it rejected, what it answered
NoPm ==
    [ kind |-> "none", names |-> << >>, called |-> FALSE, threw |-> FALSE,
      answer |-> FALSE, resolved |-> {}, nextLog |-> << >> ]

\* socket.handshake: query.token, headers.authorization, auth.token
Handshake(query, authorization, auth) ==
    [ query |-> query, authorization |-> authorization, auth |-> auth ]

\* socket.user = undefined
NoSockUser ==
    [ set |-> FALSE, userId |-> Undefined, username |-> Undefined,
      roles |-> << >>, permissions |-> << >> ]

\* a socket before its connection attempt; emits and nexts log the calls of
\* socket.emit and of next made by the middleware
NoSock ==
    [ handshake |-> Handshake(NoStr, NoStr, NoStr), isAuthenticated |-> FALSE,
      user |-> NoSockUser, emits |-> << >>, nexts |-> << >>, escaped |-> FALSE ]

\* nothing was asked about the socket yet
NoQuery == [op |-> "none", name |-> "", answer |-> FALSE]

\* no cleanupExpiredTokens call is in flight; keys are the keys still to visit,
\* key the one being visited, deleted the number of keys del really removed and
\* removedLive whether del removed an entry whose time to live had not elapsed
NoCleanup ==
    [ pc |-> "idle", keys |-> {}, key |-> << >>, cleanedCount |-> 0, deleted |-> 0,
      removedLive |-> FALSE, outcome |-> "none", returned |-> 0 ]

\* no call was made on the revocation service yet; a call records the time it
\* was made at, whether its Redis command was executed by the store (reached),
\* how its promise settled and, when it resolved with a boolean, that boolean
NoCall ==
    [ op |-> "none", token |-> << >>, at |-> 0, reached |-> FALSE,
      outcome |-> "none", result |-> FALSE ]

\* the manager and the service before anything ran
NoMgr == [client |-> 0, isConnected |-> FALSE, quitting |-> 0]
NoSvc == [constructed |-> FALSE, redisClient |-> 0, isRedisAvailable |-> FALSE]

\* no call was made on the service yet; a call records what its operation does
\* (opDoes, with the value it resolves to), the fallback value, whether the
\* operation was invoked, how the call's promise settled and what it returned
NoCacheCall ==
    [ op |-> "none", opDoes |-> "none", value |-> "none", fallback |-> "none",
      invoked |-> FALSE, outcome |-> "none", returned |-> "none" ]

Init ==
    /\ now = 0
    /\ stage = "idle"
    /\ req = Req(FALSE, NoStr, NoStr)
    /\ mode = "none"
    /\ user = NoUser
    /\ res = NoRes
    /\ nextLog = << >>
    /\ escaped = FALSE
    /\ gateAt = 0
    /\ pm = NoPm
    /\ sock = NoSock
    /\ sockQuery = NoQuery
    /\ blClient = "connecting"
    /\ store = {}
    /\ blCall = NoCall
    /\ ledger = {}
    /\ cleanup = NoCleanup
    /\ clients = << >>
    /\ mgr = NoMgr
    /\ svc = NoSvc
    /\ cacheCall = NoCacheCall

\* the clock advances; Redis drops the keys whose time to live has elapsed
Tick ==
    /\ now < MaxNow
    /\ now' = now + 1
    /\ store' = { e \in store : e.expireAt > now + 1 }
    /\ UNCHANGED << stage, http, sock, sockQuery, cache, cleanup, blClient, blCall, ledger >>

\* a request arrives
NewRequest(r) ==
    /\ stage = "idle"
    /\ stage' = "arrived"
    /\ req' = r
    /\ mode' = "none"
    /\ user' = NoUser
    /\ res' = NoRes
    /\ nextLog' = << >>
    /\ escaped' = FALSE
    /\ gateAt' = 0
    /\ pm' = NoPm
    /\ sock' = NoSock
    /\ sockQuery' = NoQuery
    /\ UNCHANGED << now, revocation, cache >>

\* the request or connection attempt is over; its objects are discarded
EndRequest ==
    /\ stage \in {"gated", "authorized", "sockDone"}
    /\ stage' = "idle"
    /\ req' = Req(FALSE, NoStr, NoStr)
    /\ mode' = "none"
    /\ user' = NoUser
    /\ res' = NoRes
    /\ nextLog' = << >>
    /\ escaped' = FALSE
    /\ gateAt' = 0
    /\ pm' = NoPm
    /\ sock' = NoSock
    /\ sockQuery' = NoQuery
    /\ UNCHANGED << now, revocation, cache >>

\* AuthMiddleware.authenticate; throws[k] says whether the k-th call of next throws
Authenticate(throws) ==
    /\ stage = "arrived"
    /\ stage' = "gated"
    /\ mode' = "authenticate"
    /\ LET token == ExtractToken(req)
           decoded == VerifyToken(token.tok, now)
       IN  IF ExtractThrows(req)
           THEN /\ res' = Json(401, "Authentication failed")
                /\ UNCHANGED << user, nextLog >>
           ELSE IF TokenFalsy(token)
           THEN /\ res' = Json(401, "Access token required")
                /\ UNCHANGED << user, nextLog >>
           ELSE IF ~decoded.ok
           THEN /\ res' = Json(401, "Invalid or expired token")
                /\ UNCHANGED << user, nextLog >>
           ELSE /\ user' = IdentityOf(decoded.payload)
                /\ IF throws[1]
                   THEN /\ nextLog' = << "throw" >>
                        /\ res' = Json(401, "Authentication failed")
                   ELSE /\ nextLog' = << "ok" >>
                        /\ UNCHANGED res
    /\ escaped' = FALSE
    /\ gateAt' = now
    /\ UNCHANGED << now, req, pm, sock, sockQuery, revocation, cache >>

\* AuthMiddleware.optional
Optional(throws) ==
    /\ stage = "arrived"
    /\ stage' = "gated"
    /\ mode' = "optional"
    /\ LET token == ExtractToken(req)
           decoded == VerifyToken(token.tok, now)
           pass == ~TokenFalsy(token) /\ decoded.ok
       IN  /\ user' = IF pass THEN IdentityOf(decoded.payload) ELSE user
           \* extractToken throws: the catch block makes the only call of next;
           \* otherwise next() in the try block, and the catch block calls it again
           /\ IF ExtractThrows(req)
              THEN nextLog' = << IF throws[1] THEN "throw" ELSE "ok" >>
                   /\ escaped' = throws[1]
              ELSE IF ~throws[1]
              THEN nextLog' = << "ok" >> /\ escaped' = FALSE
              ELSE IF ~throws[2]
              THEN nextLog' = << "throw", "ok" >> /\ escaped' = FALSE
              ELSE nextLog' = << "throw", "throw" >> /\ escaped' = TRUE
    /\ gateAt' = now
    /\ UNCHANGED << now, req, res, pm, sock, sockQuery, revocation, cache >>

\* --------------------------------------------------- permission middleware

\* The permission-lookup service (PermissionQueriesSvc) resolves the permission
\* set / role set of a user id; a call either rejects or answers from that set.
PermUniverse == {"a", "b"}
RoleUniverse == {"admin", "superadmin"}
Lookups(universe) ==
    { [threw |-> TRUE, resolved |-> {}] }
    \cup { [threw |-> FALSE, resolved |-> s] : s \in SUBSET universe }

UserHasPermission(resolved, name) == name \in resolved
UserHasAnyPermission(resolved, names) == \E i \in 1..Len(names) : names[i] \in resolved
UserHasAllPermissions(resolved, names) == \A i \in 1..Len(names) : names[i] \in resolved
UserHasRole(resolved, name) == name \in resolved

\* the requirements the routes mount
NameLists == { << >>, << "a" >>, << "a", "b" >> }

\* !req.user || !req.user.id
Unauthenticated(u) == ~u.set \/ ~Truthy(u.id)

\* the three responses of the permission middlewares
AuthRequired ==
    [ status |-> 401, message |-> "Authentication required",
      error |-> "USER_NOT_AUTHENTICATED", required |-> << >> ]
Forbidden(kind, names) ==
    [ status |-> 403, message |-> "Access denied",
      error |-> IF kind = "requireRole" THEN "INSUFFICIENT_ROLE"
                ELSE "INSUFFICIENT_PERMISSIONS",
      required |-> names ]
CheckError(kind) ==
    [ status |-> 500,
      message |-> IF kind = "requireRole" THEN "Role validation failed"
                  ELSE "Permission validation failed",
      error |-> IF kind = "requireRole" THEN "ROLE_CHECK_ERROR"
                ELSE "PERMISSION_CHECK_ERROR",
      required |-> << >> ]

\* what the catch block of a permission middleware does with a rejected lookup:
\* the response it writes, and whether next is called
OnLookupError_FailOpen(kind) == [res |-> NoRes, callNext |-> TRUE]
OnLookupError(kind) == [res |-> CheckError(kind), callNext |-> FALSE]

\* the answers of the lookup calls the four middlewares make
LookupPermission(resolved, names) == UserHasPermission(resolved, names[1])
LookupAny(resolved, names) == UserHasAnyPermission(resolved, names)
LookupAll_Any(resolved, names) == UserHasAnyPermission(resolved, names)
LookupAll(resolved, names) == UserHasAllPermissions(resolved, names)
LookupRole_AnyRole(resolved, names) == resolved # {}
LookupRole(resolved, names) == UserHasRole(resolved, names[1])

\* the next middleware of the route runs: no gate is mounted, or the gate's
\* last call of next returned, and nothing was written to the response
DownstreamReached ==
    /\ res.status = 0
    /\ \/ stage = "arrived"
       \/ stage = "gated" /\ nextLog # << >> /\ nextLog[Len(nextLog)] = "ok"

\* the body shared by the four middlewares: identity check, awaited lookup
\* (lk, with its answer has), 403 or next, and the catch block
Authorize(kind, names, has, lk, throws) ==
    /\ stage' = "authorized"
    /\ IF Unauthenticated(user)
       THEN /\ res' = AuthRequired
            /\ pm' = [NoPm EXCEPT !.kind = kind, !.names = names]
       ELSE IF lk.threw
       THEN /\ res' = OnLookupError(kind).res
            /\ pm' = [ kind |-> kind, names |-> names, called |-> TRUE, threw |-> TRUE,
                       answer |-> FALSE, resolved |-> {},
                       nextLog |-> IF OnLookupError(kind).callNext THEN << "ok" >>
                                   ELSE << >> ]
       ELSE IF ~has
       THEN /\ res' = Forbidden(kind, names)
            /\ pm' = [ kind |-> kind, names |-> names, called |-> TRUE, threw |-> FALSE,
                       answer |-> FALSE, resolved |-> lk.resolved, nextLog |-> << >> ]
       ELSE /\ res' = IF throws[1] THEN CheckError(kind) ELSE res
            /\ pm' = [ kind |-> kind, names |-> names, called |-> TRUE, threw |-> FALSE,
                       answer |-> TRUE, resolved |-> lk.resolved,
                       nextLog |-> IF throws[1] THEN << "throw" >> ELSE << "ok" >> ]
    /\ UNCHANGED << now, req, mode, user, nextLog, escaped, gateAt, sock, sockQuery, revocation, cache >>

RequirePermission(name, lk, throws) ==
    /\ DownstreamReached
    /\ Authorize("requirePermission", << name >>,
                 LookupPermission(lk.resolved, << name >>), lk, throws)

RequireAnyPermission(names, lk, throws) ==
    /\ DownstreamReached
    /\ Authorize("requireAnyPermission", names, LookupAny(lk.resolved, names), lk, throws)

RequireAllPermissions(names, lk, throws) ==
    /\ DownstreamReached
    /\ Authorize("requireAllPermissions", names, LookupAll(lk.resolved, names), lk, throws)

RequireRole(name, lk, throws) ==
    /\ DownstreamReached
    /\ Authorize("requireRole", << name >>, LookupRole(lk.resolved, << name >>), lk, throws)

\* ---------------------------------------------------------- socket gate

\* the secret the socket middleware verifies with (JWT_SECRET, as the HTTP gate)
SocketSecret == ConfiguredSecret

\* the connection attempts: one token in one of the three places, or none,
\* or two places at once
Handshakes ==
    { Handshake(NoStr, NoStr, NoStr), Handshake(Some(Empty), NoStr, Some(Empty)) }
    \cup { Handshake(Some(t), NoStr, NoStr) : t \in SocketTokens \cup {Garbage} }
    \cup { Handshake(NoStr, Some(BearerPrefix \o t), NoStr) : t \in SocketTokens }
    \cup { Handshake(NoStr, NoStr, Some(t)) : t \in SocketTokens }
    \cup { Handshake(NoStr, Some(LowerPrefix \o t), NoStr) : t \in {SocketToken} }
    \cup { Handshake(Some(Garbage), Some(BearerPrefix \o t), NoStr) : t \in {SocketToken} }
    \cup { Handshake(Some(Garbage), NoStr, Some(t)) : t \in {SocketToken} }
    \cup { Handshake(NoStr, Some(BearerPrefix \o Garbage), Some(t)) : t \in {SocketToken} }
    \cup { Handshake(Some(t), Some(BearerPrefix \o Garbage), Some(Garbage)) : t \in {SocketToken} }

\* extractToken reading the header, then the auth object, then the query
SocketExtractToken_HeaderFirst(h) ==
    IF h.authorization.present /\ StartsWith(h.authorization.s, BearerPrefix)
    THEN Found(Substring(h.authorization.s, 7))
    ELSE IF h.auth.present THEN Found(h.auth.s)
    ELSE IF h.query.present /\ h.query.s # Empty THEN Found(h.query.s)
    ELSE NoToken

\* WebSocketAuthMiddleware.extractToken: query, then header, then auth object
SocketExtractToken(h) ==
    IF h.query.present /\ h.query.s # Empty THEN Found(h.query.s)
    ELSE IF h.authorization.present /\ StartsWith(h.authorization.s, BearerPrefix)
         THEN Found(Substring(h.authorization.s, 7))
    ELSE IF h.auth.present THEN Found(h.auth.s)
    ELSE NoToken

\* the required-field check of WebSocketAuthMiddleware.verifyToken
MissingFields(p) == ~Truthy(p.userId) \/ ~Truthy(p.username)

\* WebSocketAuthMiddleware.verifyToken: jwt.verify, required fields, expiry
SocketVerifyToken(tok, t) ==
    LET r == JwtVerify(tok, SocketSecret, t)
    IN  IF r.err # "none" THEN [ok |-> FALSE, payload |-> NoPayload]
        ELSE IF MissingFields(r.payload) THEN [ok |-> FALSE, payload |-> NoPayload]
        ELSE IF r.payload.exp # NoExp /\ r.payload.exp # 0 /\ t * 1000 >= r.payload.exp * 1000
             THEN [ok |-> FALSE, payload |-> NoPayload]
        ELSE [ok |-> TRUE, payload |-> r.payload]

Emitted(event, threw) == [event |-> event, threw |-> threw]
Called(err, threw) == [err |-> err, threw |-> threw]

\* the catch block of authenticateSocket, entered with the socket as it is:
\* sendAuthenticationError, then next(new Error('Authentication failed'))
SocketCatch(sk, eThrows, nThrows) ==
    IF eThrows[Len(sk.emits) + 1]
    THEN [sk EXCEPT !.emits = Append(@, Emitted("authentication_failed", TRUE)),
                    !.escaped = TRUE]
    ELSE [sk EXCEPT !.emits = Append(@, Emitted("authentication_failed", FALSE)),
                    !.nexts = Append(@, Called("Authentication failed",
                                               nThrows[Len(sk.nexts) + 1])),
                    !.escaped = nThrows[Len(sk.nexts) + 1]]

\* the two rejecting branches of the try block: sendAuthenticationError, then
\* return next(new Error(err))
SocketReject(sk, err, eThrows, nThrows) ==
    IF eThrows[1]
    THEN SocketCatch([sk EXCEPT !.emits = << Emitted("authentication_failed", TRUE) >>],
                     eThrows, nThrows)
    ELSE IF nThrows[1]
    THEN SocketCatch([sk EXCEPT !.emits = << Emitted("authentication_failed", FALSE) >>,
                                !.nexts = << Called(err, TRUE) >>], eThrows, nThrows)
    ELSE [sk EXCEPT !.emits = << Emitted("authentication_failed", FALSE) >>,
                    !.nexts = << Called(err, FALSE) >>]

\* the accepting branch: socket.user, isAuthenticated, emit success, next()
SocketAccept(sk, p, eThrows, nThrows) ==
    LET authed == [sk EXCEPT !.user = [ set |-> TRUE, userId |-> p.userId,
                                        username |-> p.username,
                                        roles |-> OrEmpty(p.roles),
                                        permissions |-> OrEmpty(p.permissions) ],
                             !.isAuthenticated = TRUE]
    IN  IF eThrows[1]
        THEN SocketCatch([authed EXCEPT !.emits = << Emitted("authentication_success", TRUE) >>],
                         eThrows, nThrows)
        ELSE IF nThrows[1]
        THEN SocketCatch([authed EXCEPT
                            !.emits = << Emitted("authentication_success", FALSE) >>,
                            !.nexts = << Called("none", TRUE) >>], eThrows, nThrows)
        ELSE [authed EXCEPT !.emits = << Emitted("authentication_success", FALSE) >>,
                            !.nexts = << Called("none", FALSE) >>]

\* a socket connects
NewSocket(h) ==
    /\ stage = "idle"
    /\ stage' = "sockArrived"
    /\ sock' = [NoSock EXCEPT !.handshake = h]
    /\ req' = Req(FALSE, NoStr, NoStr)
    /\ mode' = "none"
    /\ user' = NoUser
    /\ res' = NoRes
    /\ nextLog' = << >>
    /\ escaped' = FALSE
    /\ gateAt' = 0
    /\ pm' = NoPm
    /\ sockQuery' = NoQuery
    /\ UNCHANGED << now, revocation, cache >>

\* WebSocketAuthMiddleware.authenticateSocket; eThrows / nThrows say which calls
\* of socket.emit / next throw
AuthenticateSocket(eThrows, nThrows) ==
    /\ stage = "sockArrived"
    /\ stage' = "sockDone"
    /\ LET sk == [sock EXCEPT !.isAuthenticated = FALSE, !.user = NoSockUser]
           token == SocketExtractToken(sock.handshake)
           payload == SocketVerifyToken(token.tok, now)
       IN  sock' = IF TokenFalsy(token)
                   THEN SocketReject(sk, "Authentication required", eThrows, nThrows)
                   ELSE IF ~payload.ok
                   THEN SocketReject(sk, "Invalid authentication token", eThrows, nThrows)
                   ELSE SocketAccept(sk, payload.payload, eThrows, nThrows)
    /\ gateAt' = now
    /\ UNCHANGED << now, req, mode, user, res, nextLog, escaped, pm, sockQuery, revocation, cache >>

\* ------------------------------------------------------ revocation store

\* crypto's sha256 hex digest of a token: one digest per token
Sha256Hex(tok) == << "sha256" >> \o tok

\* JwtBlacklistService.getRedisKey
KeyPrefix == << "jwt_blacklist:" >>
\* getRedisKey without the digest of the token
GetRedisKey_NoHash(tok) == KeyPrefix
GetRedisKey(tok) == KeyPrefix \o Sha256Hex(tok)

Max(a, b) == IF a >= b THEN a ELSE b

\* the time to live without the floor of one second
BlacklistTtl_NoFloor(expiresAt, t) == expiresAt - t

\* the time to live addToBlacklist computes at time t (whole seconds)
BlacklistTtl(expiresAt, t) == Max(expiresAt - t, 1)

\* the tokens that get revoked, and the requests that present them
NoExpToken == Encode("sig:S", "exp-", "sub:42", "uid-", "name-", "roles-", "perms-")
RevokeTokens == {TheToken, NoExpToken}
RevokeRequests ==
    { Req(FALSE, NoStr, NoStr) }
    \cup { Req(TRUE, Some(t), NoStr) : t \in RevokeTokens }
    \cup { Req(FALSE, NoStr, Some(BearerPrefix \o t)) : t \in RevokeTokens }

\* the store holds a live entry under the key of tok
Live(tok) == \E e \in store : e.key = GetRedisKey(tok)

\* redisClient.connect() of setupRedisConnection resolves, or rejects
BlConnected ==
    /\ blClient = "connecting"
    /\ blClient' = "ready"
    /\ UNCHANGED << now, stage, http, sock, sockQuery, cache, cleanup, store, blCall, ledger >>

BlConnectFailed ==
    /\ blClient = "connecting"
    /\ blClient' = "closed"
    /\ UNCHANGED << now, stage, http, sock, sockQuery, cache, cleanup, store, blCall, ledger >>

\* the connection drops ('error' event); the client connects again by itself
BlConnectionLost ==
    /\ blClient = "ready"
    /\ blClient' = "connecting"
    /\ UNCHANGED << now, stage, http, sock, sockQuery, cache, cleanup, store, blCall, ledger >>

\* Redis SETEX at time t: the key is (re)written and expires ttl seconds later
RedisSetEx(st, key, ttl, value, t) ==
    { e \in st : e.key # key }
    \cup { [ key |-> key, expireAt |-> t + ttl, reason |-> value.reason,
             blacklistedAt |-> value.blacklistedAt, expiresAt |-> value.expiresAt ] }

\* Redis GET: the key holds a value; Redis DEL: the keys left, the count deleted
RedisGet(st, key) == \E e \in st : e.key = key
RedisDel(st, key) == { e \in st : e.key # key }
RedisDelCount(st, key) == Cardinality({ e \in st : e.key = key })

\* a command of the service's client is executed by Redis: the client is
\* ready and the command is not lost on the way (ok)
Reaches(ok) == blClient = "ready" /\ ok

\* how addToBlacklist settles: its catch block logs and rethrows
AddOutcome_Swallow(reached) == "resolved"
AddOutcome(reached) == IF reached THEN "resolved" ELSE "rejected"

\* JwtBlacklistService.addToBlacklist; setEx rejects when the client is not
\* ready or, writeOk = FALSE, when the command does not reach Redis
AddToBlacklist(tok, expiresAt, reason, writeOk) ==
    /\ IF Reaches(writeOk)
       THEN /\ store' = RedisSetEx(store, GetRedisKey(tok), BlacklistTtl(expiresAt, now),
                                   [ reason |-> reason, blacklistedAt |-> now,
                                     expiresAt |-> expiresAt ], now)
            /\ ledger' = { h \in ledger : h.token # tok }
                         \cup { [ token |-> tok,
                                  until |-> now + (IF expiresAt - now >= 1
                                                   THEN expiresAt - now ELSE 1) ] }
       ELSE UNCHANGED << store, ledger >>
    /\ blCall' = [ op |-> "addToBlacklist", token |-> tok, at |-> now,
                   reached |-> Reaches(writeOk),
                   outcome |-> AddOutcome(Reaches(writeOk)), result |-> FALSE ]
    /\ UNCHANGED << now, stage, http, sock, sockQuery, cache, cleanup, blClient >>

\* how isBlacklisted settles: its catch block logs and returns false
ReadOutcome_Rethrow(reached, hit) ==
    IF reached THEN [outcome |-> "resolved", result |-> hit]
    ELSE [outcome |-> "rejected", result |-> FALSE]
ReadOutcome(reached, hit) ==
    IF reached THEN [outcome |-> "resolved", result |-> hit]
    ELSE [outcome |-> "resolved", result |-> FALSE]

\* JwtBlacklistService.isBlacklisted
IsBlacklisted(tok, readOk) ==
    /\ LET r == ReadOutcome(Reaches(readOk), RedisGet(store, GetRedisKey(tok)))
       IN  blCall' = [ op |-> "isBlacklisted", token |-> tok, at |-> now,
                       reached |-> Reaches(readOk),
                       outcome |-> r.outcome, result |-> r.result ]
    /\ UNCHANGED << now, stage, http, sock, sockQuery, cache, cleanup, blClient, store, ledger >>

\* JwtBlacklistService.removeFromBlacklist: del, result > 0; errors are rethrown
RemoveFromBlacklist(tok, delOk) ==
    /\ IF Reaches(delOk)
       THEN /\ store' = RedisDel(store, GetRedisKey(tok))
            /\ ledger' = { h \in ledger : h.token # tok }
            /\ blCall' = [ op |-> "removeFromBlacklist", token |-> tok, at |-> now,
                           reached |-> TRUE, outcome |-> "resolved",
                           result |-> RedisDelCount(store, GetRedisKey(tok)) > 0 ]
       ELSE /\ blCall' = [ op |-> "removeFromBlacklist", token |-> tok, at |-> now,
                           reached |-> FALSE, outcome |-> "rejected", result |-> FALSE ]
            /\ UNCHANGED << store, ledger >>
    /\ UNCHANGED << now, stage, http, sock, sockQuery, cache, cleanup, blClient >>

\* Redis KEYS prefix*: the keys that begin with the prefix
RedisKeys(st, prefix) ==
    { e.key : e \in { x \in st : /\ Len(x.key) >= Len(prefix)
                                 /\ SubSeq(x.key, 1, Len(prefix)) = prefix } }

\* Redis TTL at time t: -2 for a key that does not exist, otherwise the
\* seconds the key has left (every key of the store was written by SETEX)
RedisTtl(st, key, t) ==
    IF ~RedisGet(st, key) THEN -2
    ELSE (CHOOSE e \in st : e.key = key).expireAt - t

\* cleanupExpiredTokens rejects: its catch block logs and rethrows
CleanupRejected == [cleanup EXCEPT !.pc = "done", !.outcome = "rejected"]

\* JwtBlacklistService.cleanupExpiredTokens up to its first await:
\* keys(keyPrefix*), cleanedCount = 0
CleanupKeys(ok) ==
    /\ cleanup.pc \in {"idle", "done"}
    /\ cleanup' = IF Reaches(ok)
                  THEN [NoCleanup EXCEPT !.pc = "loop", !.keys = RedisKeys(store, KeyPrefix)]
                  ELSE [NoCleanup EXCEPT !.pc = "done", !.outcome = "rejected"]
    /\ UNCHANGED << now, stage, http, sock, sockQuery, cache, blClient, store, blCall, ledger >>

\* the loop visits key k: ttl(k), and the test ttl <= 0
CleanupTtl(k, ok) ==
    /\ cleanup.pc = "loop" /\ k \in cleanup.keys
    /\ cleanup' = IF ~Reaches(ok) THEN CleanupRejected
                  ELSE IF RedisTtl(store, k, now) <= 0
                  THEN [cleanup EXCEPT !.pc = "del", !.key = k, !.keys = @ \ {k}]
                  ELSE [cleanup EXCEPT !.keys = @ \ {k}]
    /\ UNCHANGED << now, stage, http, sock, sockQuery, cache, blClient, store, blCall, ledger >>

\* del(key), cleanedCount++
CleanupDel(ok) ==
    /\ cleanup.pc = "del"
    /\ IF Reaches(ok)
       THEN /\ store' = RedisDel(store, cleanup.key)
            /\ cleanup' = [cleanup EXCEPT
                              !.pc = "loop", !.key = << >>,
                              !.cleanedCount = @ + 1,
                              !.deleted = @ + RedisDelCount(store, cleanup.key),
                              !.removedLive = @ \/ \E e \in store : /\ e.key = cleanup.key
                                                                  /\ e.expireAt > now]
       ELSE /\ cleanup' = CleanupRejected
            /\ UNCHANGED store
    /\ UNCHANGED << now, stage, http, sock, sockQuery, cache, blClient, blCall, ledger >>

\* the loop is over: return cleanedCount
CleanupReturn ==
    /\ cleanup.pc = "loop" /\ cleanup.keys = {}
    /\ cleanup' = [cleanup EXCEPT !.pc = "done", !.outcome = "resolved",
                                  !.returned = cleanup.cleanedCount]
    /\ UNCHANGED << now, stage, http, sock, sockQuery, cache, blClient, store, blCall, ledger >>

\* the permissions and roles asked about a socket
SocketPermissions == {"drone:control", "drone:read"}
SocketRoles == {"admin", "operator"}

\* hasPermission without the admin rule
HasPermission_NoAdmin(sk, requiredPermission) ==
    IF ~sk.isAuthenticated \/ ~sk.user.set THEN FALSE
    ELSE Includes(sk.user.permissions, requiredPermission)

\* WebSocketAuthMiddleware.hasPermission
HasPermission(sk, requiredPermission) ==
    IF ~sk.isAuthenticated \/ ~sk.user.set THEN FALSE
    ELSE Includes(sk.user.permissions, requiredPermission)
         \/ Includes(sk.user.roles, "admin")

\* WebSocketAuthMiddleware.hasRole
HasRole(sk, requiredRole) ==
    IF ~sk.isAuthenticated \/ ~sk.user.set THEN FALSE
    ELSE Includes(sk.user.roles, requiredRole)

\* after the connection attempt, a handler asks hasPermission about the socket
AskPermission(p) ==
    /\ stage = "sockDone"
    /\ sockQuery' = [op |-> "hasPermission", name |-> p, answer |-> HasPermission(sock, p)]
    /\ UNCHANGED << now, stage, http, sock, revocation, cache >>

\* after the connection attempt, a handler asks hasRole about the socket
AskRole(r) ==
    /\ stage = "sockDone"
    /\ sockQuery' = [op |-> "hasRole", name |-> r, answer |-> HasRole(sock, r)]
    /\ UNCHANGED << now, stage, http, sock, revocation, cache >>

\* ----------------------------------------------------------- cache helper

\* the clients the connection manager may create
MaxClients == 2

\* RedisConnectionManager.connect up to its await: nothing when connected,
\* otherwise a new client with its event handlers, whose socket starts connecting
MgrConnect ==
    /\ ~(mgr.isConnected /\ mgr.client # 0)
    /\ Len(clients) < MaxClients
    /\ clients' = Append(clients, "connecting")
    /\ mgr' = [mgr EXCEPT !.client = Len(clients) + 1]
    /\ UNCHANGED << now, stage, http, sock, sockQuery, revocation, svc, cacheCall >>

\* the 'connect' event of client c: its handler sets isConnected
ClientConnectEvent(c) ==
    /\ c \in 1..Len(clients) /\ clients[c] = "connecting"
    /\ clients' = [clients EXCEPT ![c] = "ready"]
    /\ mgr' = [mgr EXCEPT !.isConnected = TRUE]
    /\ UNCHANGED << now, stage, http, sock, sockQuery, revocation, svc, cacheCall >>

\* the 'error' event of client c (its socket cannot connect, or is lost and
\* connects again): its handler clears isConnected
ClientErrorEvent(c) ==
    /\ c \in 1..Len(clients) /\ clients[c] \in {"connecting", "ready"}
    /\ clients' = [clients EXCEPT ![c] = "connecting"]
    /\ mgr' = [mgr EXCEPT !.isConnected = FALSE]
    /\ UNCHANGED << now, stage, http, sock, sockQuery, revocation, svc, cacheCall >>

\* RedisConnectionManager.disconnect up to its await: nothing unless connected,
\* otherwise quit() on the current client; quitting is the client awaited
MgrDisconnectStart ==
    /\ mgr.client # 0 /\ mgr.isConnected /\ mgr.quitting = 0
    /\ clients' = [clients EXCEPT ![mgr.client] = "closing"]
    /\ mgr' = [mgr EXCEPT !.quitting = mgr.client]
    /\ UNCHANGED << now, stage, http, sock, sockQuery, revocation, svc, cacheCall >>

\* the 'end' event of client c, emitted when its quit() closes the socket:
\* its handler clears isConnected
ClientEndEvent(c) ==
    /\ c \in 1..Len(clients) /\ clients[c] = "closing"
    /\ clients' = [clients EXCEPT ![c] = "ended"]
    /\ mgr' = [mgr EXCEPT !.isConnected = FALSE]
    /\ UNCHANGED << now, stage, http, sock, sockQuery, revocation, svc, cacheCall >>

\* RedisConnectionManager.disconnect after its await: the fields are cleared
MgrDisconnectDone ==
    /\ mgr.quitting # 0 /\ clients[mgr.quitting] = "ended"
    /\ mgr' = [client |-> 0, isConnected |-> FALSE, quitting |-> 0]
    /\ UNCHANGED << now, stage, http, sock, sockQuery, revocation, clients, svc, cacheCall >>

\* RedisConnectionManager.getClient: the client, or an exception
GetClient(m) ==
    IF m.client = 0 \/ ~m.isConnected THEN [threw |-> TRUE, client |-> 0]
    ELSE [threw |-> FALSE, client |-> m.client]

\* BaseRedisService.initializeRedisConnection: the fields it leaves
InitializeRedisConnection(m) ==
    IF GetClient(m).threw
    THEN [constructed |-> TRUE, redisClient |-> 0, isRedisAvailable |-> FALSE]
    ELSE [constructed |-> TRUE, redisClient |-> GetClient(m).client, isRedisAvailable |-> TRUE]

\* the constructor of a service extending BaseRedisService
Construct ==
    /\ ~svc.constructed
    /\ svc' = InitializeRedisConnection(mgr)
    /\ UNCHANGED << now, stage, http, sock, sockQuery, revocation, clients, mgr, cacheCall >>

\* BaseRedisService.getRedisClient: isRedisAvailable ? redisClient : null
ServiceClient(sv) == IF sv.isRedisAvailable THEN sv.redisClient ELSE 0

\* reconnectRedis returning true whatever the outcome
ReconnectReturn_AlwaysTrue(sv) == "true"

\* what reconnectRedis returns: this.isRedisAvailable after the attempt
ReconnectReturn(sv) == IF sv.isRedisAvailable THEN "true" ELSE "false"

\* BaseRedisService.reconnectRedis; value records the availability before the call
ReconnectRedis ==
    /\ svc.constructed
    /\ svc' = InitializeRedisConnection(mgr)
    /\ cacheCall' = [ NoCacheCall EXCEPT
                        !.op = "reconnectRedis", !.outcome = "resolved",
                        !.value = IF svc.isRedisAvailable THEN "available" ELSE "unavailable",
                        !.returned = ReconnectReturn(InitializeRedisConnection(mgr)) ]
    /\ UNCHANGED << now, stage, http, sock, sockQuery, revocation, clients, mgr >>

\* what operations passed to the helper do, and the values they handle
OpBehaviours == {"resolve", "throw", "reject"}
CacheValues == {"hit", "miss"}

\* safeRedisOperation without the test of getRedisClient()
SafeOperationResult_NoGuard(client, opDoes, value, fallback) ==
    IF opDoes = "resolve"
    THEN [invoked |-> TRUE, outcome |-> "resolved", returned |-> value]
    ELSE [invoked |-> TRUE, outcome |-> "resolved", returned |-> fallback]

\* the body of safeRedisOperation, client being what getRedisClient() returned
SafeOperationResult(client, opDoes, value, fallback) ==
    IF client = 0
    THEN [invoked |-> FALSE, outcome |-> "resolved", returned |-> fallback]
    ELSE IF opDoes = "resolve"
    THEN [invoked |-> TRUE, outcome |-> "resolved", returned |-> value]
    ELSE [invoked |-> TRUE, outcome |-> "resolved", returned |-> fallback]

\* BaseRedisService.safeRedisOperation(operation, operationName, fallbackValue)
SafeRedisOperation(opDoes, value, fallback) ==
    /\ svc.constructed
    /\ LET r == SafeOperationResult(ServiceClient(svc), opDoes, value, fallback)
       IN  cacheCall' = [ op |-> "safeRedisOperation", opDoes |-> opDoes, value |-> value,
                          fallback |-> fallback, invoked |-> r.invoked,
                          outcome |-> r.outcome, returned |-> r.returned ]
    /\ UNCHANGED << now, stage, http, sock, sockQuery, revocation, clients, mgr, svc >>

\* safeRedisWrite whose catch block rethrows
SafeWriteResult_Rethrow(client, opDoes) ==
    IF client = 0
    THEN [invoked |-> FALSE, outcome |-> "resolved", returned |-> "false"]
    ELSE IF opDoes = "resolve"
    THEN [invoked |-> TRUE, outcome |-> "resolved", returned |-> "true"]
    ELSE [invoked |-> TRUE, outcome |-> "rejected", returned |-> "none"]

\* the body of safeRedisWrite
SafeWriteResult(client, opDoes) ==
    IF client = 0
    THEN [invoked |-> FALSE, outcome |-> "resolved", returned |-> "false"]
    ELSE IF opDoes = "resolve"
    THEN [invoked |-> TRUE, outcome |-> "resolved", returned |-> "true"]
    ELSE [invoked |-> TRUE, outcome |-> "resolved", returned |-> "false"]

\* BaseRedisService.safeRedisWrite(operation, operationName)
SafeRedisWrite(opDoes) ==
    /\ svc.constructed
    /\ LET r == SafeWriteResult(ServiceClient(svc), opDoes)
       IN  cacheCall' = [ op |-> "safeRedisWrite", opDoes |-> opDoes, value |-> "none",
                          fallback |-> "none", invoked |-> r.invoked,
                          outcome |-> r.outcome, returned |-> r.returned ]
    /\ UNCHANGED << now, stage, http, sock, sockQuery, revocation, clients, mgr, svc >>

\* the counts the keys / del operation of clearCacheByPattern resolves to
CacheCounts == {"0", "2"}

\* BaseRedisService.clearCacheByPattern: safeRedisOperation with the fallback 0
ClearCacheByPattern(opDoes, count) ==
    /\ svc.constructed
    /\ LET r == SafeOperationResult(ServiceClient(svc), opDoes, count, "0")
       IN  cacheCall' = [ op |-> "clearCacheByPattern", opDoes |-> opDoes, value |-> count,
                          fallback |-> "0", invoked |-> r.invoked,
                          outcome |-> r.outcome, returned |-> r.returned ]
    /\ UNCHANGED << now, stage, http, sock, sockQuery, revocation, clients, mgr, svc >>

\* BaseRedisService.getServiceStatus: redisAvailable
GetServiceStatus ==
    /\ svc.constructed
    /\ cacheCall' = [ NoCacheCall EXCEPT
                        !.op = "getServiceStatus", !.outcome = "resolved",
                        !.returned = IF svc.isRedisAvailable THEN "true" ELSE "false" ]
    /\ UNCHANGED << now, stage, http, sock, sockQuery, revocation, clients, mgr, svc >>

\* ------------------------------------------------------------ behaviours

Next ==
    \/ Tick
    \/ \E r \in Requests : NewRequest(r)
    \/ EndRequest
    \/ \E th \in Throws : Authenticate(th)
    \/ \E th \in Throws : Optional(th)
    \/ \E n \in PermUniverse, lk \in Lookups(PermUniverse), th \in Throws :
          RequirePermission(n, lk, th)
    \/ \E ns \in NameLists, lk \in Lookups(PermUniverse), th \in Throws :
          RequireAnyPermission(ns, lk, th)
    \/ \E ns \in NameLists, lk \in Lookups(PermUniverse), th \in Throws :
          RequireAllPermissions(ns, lk, th)
    \/ \E n \in RoleUniverse, lk \in Lookups(RoleUniverse), th \in Throws :
          RequireRole(n, lk, th)
    \/ \E h \in Handshakes : NewSocket(h)
    \/ \E eth \in Throws, nth \in Throws : AuthenticateSocket(eth, nth)
    \/ \E p \in SocketPermissions : AskPermission(p)
    \/ \E r \in SocketRoles : AskRole(r)

Spec == Init /\ [][Next]_vars

\* the gate beside the revocation service
NextRevoke ==
    \/ Tick
    \/ \E r \in RevokeRequests : NewRequest(r)
    \/ EndRequest
    \/ \E th \in Throws : Authenticate(th)
    \/ \E th \in Throws : Optional(th)
    \/ BlConnected
    \/ BlConnectFailed
    \/ \E t \in RevokeTokens, x \in 0..(MaxNow + 1), ok \in BOOLEAN :
          AddToBlacklist(t, x, "logout", ok)

SpecRevoke == Init /\ [][NextRevoke]_vars

\* the revocation service alone, with every operation of it
NextStore ==
    \/ Tick
    \/ BlConnected
    \/ BlConnectFailed
    \/ BlConnectionLost
    \/ \E t \in RevokeTokens, x \in 0..(MaxNow + 1), ok \in BOOLEAN :
          AddToBlacklist(t, x, "logout", ok)
    \/ \E t \in RevokeTokens, ok \in BOOLEAN : IsBlacklisted(t, ok)
    \/ \E t \in RevokeTokens, ok \in BOOLEAN : RemoveFromBlacklist(t, ok)

SpecStore == Init /\ [][NextStore]_vars

\* the revocation store and its cleanup job, beside the calls that revoke
NextCleanup ==
    \/ Tick
    \/ BlConnected
    \/ BlConnectionLost
    \/ \E t \in RevokeTokens, x \in 0..(MaxNow + 1), ok \in BOOLEAN :
          AddToBlacklist(t, x, "logout", ok)
    \/ \E ok \in BOOLEAN : CleanupKeys(ok)
    \/ \E t \in RevokeTokens, ok \in BOOLEAN : CleanupTtl(GetRedisKey(t), ok)
    \/ \E ok \in BOOLEAN : CleanupDel(ok)
    \/ CleanupReturn

SpecCleanup == Init /\ [][NextCleanup]_vars

\* a service extending BaseRedisService beside the connection manager
NextCache ==
    \/ MgrConnect
    \/ \E c \in 1..MaxClients : ClientConnectEvent(c)
    \/ \E c \in 1..MaxClients : ClientErrorEvent(c)
    \/ MgrDisconnectStart
    \/ \E c \in 1..MaxClients : ClientEndEvent(c)
    \/ MgrDisconnectDone
    \/ Construct
    \/ ReconnectRedis
    \/ \E d \in OpBehaviours, v \in CacheValues, f \in CacheValues : SafeRedisOperation(d, v, f)
    \/ \E d \in OpBehaviours : SafeRedisWrite(d)
    \/ \E d \in OpBehaviours, n \in CacheCounts : ClearCacheByPattern(d, n)
    \/ GetServiceStatus

SpecCache == Init /\ [][NextCache]_vars

\* ------------------------------------------------------------ properties

\* the request carries no jwt cookie and no 'Bearer ' Authorization header
NoCredential(r) ==
    /\ ~(r.hasCookies /\ r.jwt.present /\ r.jwt.s # Empty)
    /\ ~(r.authorization.present /\ StartsWith(r.authorization.s, BearerPrefix))

\* the token is malformed, signed with another secret, or its exp is not after t
FailsVerification(tok, t) ==
    \/ ~WellFormed(tok)
    \/ tok[1] # "sig:S"
    \/ tok[2] = "exp:T" /\ t >= ExpT

\* the token is signed with the configured secret and unexpired at t
ValidToken(tok, t) ==
    WellFormed(tok) /\ tok[1] = "sig:S" /\ (tok[2] = "exp:T" => t < ExpT)

RequiredGateRan == stage = "gated" /\ mode = "authenticate"
OptionalGateRan == stage = "gated" /\ mode = "optional"
Presented == ExtractToken(req)

\* C1: in required mode a request from which no token can be extracted is
\* answered 401, next is never invoked and req.user is not set.
C1_NoTokenRejected ==
    (RequiredGateRan /\ NoCredential(req))
        => (res.status = 401 /\ nextLog = << >> /\ ~user.set)

C1_Witness ==
    /\ RequiredGateRan /\ NoCredential(req) /\ req.authorization.present
    /\ res.status = 401

\* C2: in required mode an extracted token that fails verification (other
\* secret, malformed, or expired) is answered 401, next is never invoked and
\* no identity is attached.
C2_BadTokenRejected ==
    (RequiredGateRan /\ ~TokenFalsy(Presented) /\ FailsVerification(Presented.tok, gateAt))
        => (res.status = 401 /\ nextLog = << >> /\ ~user.set)

C2_Witness ==
    /\ RequiredGateRan /\ ~TokenFalsy(Presented)
    /\ WellFormed(Presented.tok) /\ Presented.tok[1] = "sig:S"
    /\ Presented.tok[2] = "exp:T" /\ gateAt >= ExpT
    /\ res.status = 401 /\ res.message = "Invalid or expired token"

\* the roles an identity carries: req.user has no roles property
RolesOf(u) == IF "roles" \in DOMAIN u THEN List(u.roles) ELSE NoList

\* C3: in required mode a validly signed, unexpired token has next invoked
\* exactly once, no error response written, and an identity matching the
\* token's claims: id = sub, username = the username claim, roles = the roles.
C3_ValidTokenIdentity ==
    (RequiredGateRan /\ ~TokenFalsy(Presented) /\ ValidToken(Presented.tok, gateAt))
        => LET p == Payload(Presented.tok)
           IN  /\ Len(nextLog) = 1
               /\ res.status = 0
               /\ user.set /\ user.id = p.sub
               /\ (Truthy(p.username) => user.username = << p.username.v >>)
               /\ (p.roles.present => RolesOf(user) = p.roles)

\* C3, the part the gate does keep: next is invoked exactly once and the id is the sub
C3_IdIsSub ==
    (RequiredGateRan /\ ~TokenFalsy(Presented) /\ ValidToken(Presented.tok, gateAt))
        => (Len(nextLog) = 1 /\ user.set /\ user.id = Payload(Presented.tok).sub)

\* C4: in optional mode a request with no token, or with a token that fails
\* verification, has next invoked exactly once, no identity and no response.
C4_OptionalPassesThrough ==
    (OptionalGateRan /\ (TokenFalsy(Presented) \/ FailsVerification(Presented.tok, gateAt)))
        => (Len(nextLog) = 1 /\ ~user.set /\ res.status = 0 /\ ~escaped)

\* C4, as long as the first call of next returns
C4_WhenNextReturns ==
    (OptionalGateRan /\ (TokenFalsy(Presented) \/ FailsVerification(Presented.tok, gateAt))
        /\ nextLog[1] = "ok")
        => (Len(nextLog) = 1 /\ ~user.set /\ res.status = 0 /\ ~escaped)

\* the store held, before the gate ran and until after it, an entry for the token
RevokedAtGate(tok) ==
    \E e \in store :
        /\ e.key = GetRedisKey(tok)
        /\ e.blacklistedAt < gateAt
        /\ e.expireAt > gateAt

\* C5: a token that addToBlacklist stored and whose time to live has not
\* elapsed is answered 401 by the required gate, and next is not invoked.
C5_RevokedTokenRejected ==
    (RequiredGateRan /\ ~TokenFalsy(Presented) /\ RevokedAtGate(Presented.tok))
        => (res.status = 401 /\ nextLog = << >>)

PermissionRan == stage = "authorized" /\ pm.kind # "none"

\* the set of the names a requirement lists
NameSet(names) == { names[i] : i \in 1..Len(names) }

\* C6: each of the four permission middlewares answers a request without an
\* identity with 401 USER_NOT_AUTHENTICATED, without calling next or the lookup
\* service; a request that carries an identity is never answered 401.
C6_UnauthenticatedOnlyWithoutIdentity ==
    PermissionRan =>
        /\ ~user.set => /\ res.status = 401 /\ res.error = "USER_NOT_AUTHENTICATED"
                        /\ pm.nextLog = << >> /\ ~pm.called
        /\ user.set => res.status # 401

\* C6, first half: without an identity the answer is 401 and nothing else runs
C6_NoIdentityIs401 ==
    (PermissionRan /\ ~user.set)
        => /\ res.status = 401 /\ res.error = "USER_NOT_AUTHENTICATED"
           /\ pm.nextLog = << >> /\ ~pm.called

\* C7: when the lookup service rejects, the answer is 500 with the check-error
\* code and next is never invoked; next is invoked only after the lookup
\* answered true.
C7_FailsClosed ==
    PermissionRan =>
        /\ pm.threw => /\ res.status = 500
                       /\ res.error = IF pm.kind = "requireRole" THEN "ROLE_CHECK_ERROR"
                                      ELSE "PERMISSION_CHECK_ERROR"
                       /\ pm.nextLog = << >>
        /\ pm.nextLog # << >> => (pm.called /\ ~pm.threw /\ pm.answer)

C7_Witness ==
    PermissionRan /\ pm.threw /\ res.status = 500 /\ pm.kind = "requireAllPermissions"

\* C8: requireAllPermissions(names), once the lookup answered, invokes next iff
\* the resolved permission set is a superset of names; when a name is missing
\* the answer is 403 INSUFFICIENT_PERMISSIONS with the required list and next
\* is not invoked.
C8_AllPermissionsIsSuperset ==
    (PermissionRan /\ pm.kind = "requireAllPermissions")
        => /\ pm.nextLog # << >> => NameSet(pm.names) \subseteq pm.resolved
           /\ (pm.called /\ ~pm.threw) =>
                IF NameSet(pm.names) \subseteq pm.resolved
                THEN Len(pm.nextLog) = 1
                ELSE /\ res.status = 403 /\ res.error = "INSUFFICIENT_PERMISSIONS"
                     /\ res.required = pm.names /\ pm.nextLog = << >>

C8_Witness ==
    /\ PermissionRan /\ pm.kind = "requireAllPermissions"
    /\ pm.names = << "a", "b" >> /\ pm.resolved = {"a"}
    /\ pm.called /\ ~pm.threw /\ res.status = 403

\* the end-to-end request: the token {sub: 42, username: "alice", roles:
\* ["admin"]} in a Bearer header, presented while it is unexpired
EndToEnd ==
    /\ req.authorization = Some(BearerPrefix \o TheToken)
    /\ ~req.jwt.present
    /\ mode = "authenticate"
    /\ gateAt < ExpT

\* C9 as stated: the end-to-end token passes the required gate, and then
\* requireRole("admin") invokes next while requireRole("superadmin") answers
\* 403: the decision follows the roles the token carries.
C9_RoleFollowsToken ==
    /\ (EndToEnd /\ stage = "gated") => (nextLog # << >> /\ user.set)
    /\ (EndToEnd /\ PermissionRan /\ pm.kind = "requireRole" /\ pm.called /\ ~pm.threw)
          => /\ pm.names = << "admin" >> => pm.nextLog # << >>
             /\ pm.names = << "superadmin" >> => res.status = 403

\* C9 as amended: the end-to-end token passes the required gate with the
\* identity of user 42, and then requireRole(r), once the lookup answered,
\* invokes next iff the lookup service resolves r for that user, and answers
\* 403 INSUFFICIENT_ROLE otherwise.
C9_RoleFollowsLookup ==
    /\ (EndToEnd /\ stage = "gated") => (nextLog # << >> /\ user.set /\ user.id = Num("42"))
    /\ (EndToEnd /\ PermissionRan /\ pm.kind = "requireRole" /\ pm.called /\ ~pm.threw)
          => IF pm.names[1] \in pm.resolved
             THEN Len(pm.nextLog) = 1
             ELSE /\ res.status = 403 /\ res.error = "INSUFFICIENT_ROLE"
                  /\ res.required = pm.names /\ pm.nextLog = << >>

C9_Witness ==
    /\ EndToEnd /\ PermissionRan /\ pm.kind = "requireRole"
    /\ pm.names = << "admin" >> /\ pm.resolved = {"superadmin"}
    /\ pm.called /\ ~pm.threw /\ res.status = 403

SocketGateRan == stage = "sockDone"
SocketPresented == SocketExtractToken(sock.handshake)

\* C10: a validly signed, unexpired token without its subject fails in the
\* HTTP gate (401 without next in required mode, no identity in optional
\* mode); in the socket gate a token without userId or without username has
\* next called with an error and leaves the socket unauthenticated.
C10_RequiredFields ==
    /\ (stage = "gated" /\ ~TokenFalsy(Presented) /\ ValidToken(Presented.tok, gateAt)
          /\ Presented.tok[3] = "sub-")
          => /\ mode = "authenticate" => (res.status = 401 /\ nextLog = << >>)
             /\ ~user.set
    /\ (SocketGateRan /\ ~TokenFalsy(SocketPresented)
          /\ ValidToken(SocketPresented.tok, gateAt)
          /\ (SocketPresented.tok[4] = "uid-" \/ SocketPresented.tok[5] = "name-"))
          => /\ \A i \in 1..Len(sock.nexts) : sock.nexts[i].err # "none"
             /\ ~sock.isAuthenticated /\ ~sock.user.set

\* C10, the socket half alone
C10_SocketRequiredFields ==
    (SocketGateRan /\ ~TokenFalsy(SocketPresented)
        /\ ValidToken(SocketPresented.tok, gateAt)
        /\ (SocketPresented.tok[4] = "uid-" \/ SocketPresented.tok[5] = "name-"))
        => /\ \A i \in 1..Len(sock.nexts) : sock.nexts[i].err # "none"
           /\ ~sock.isAuthenticated /\ ~sock.user.set

\* extraction or verification raised an exception on the request: req.headers
\* is undefined, or jwt.verify threw on the extracted token
RaisedInGate ==
    \/ ExtractThrows(req)
    \/ ~TokenFalsy(Presented) /\ JwtVerify(Presented.tok, ConfiguredSecret, gateAt).err # "none"

\* C11: an exception raised while extracting or verifying the token ends in
\* 401 with next never invoked in required mode, in exactly one call of next
\* and no identity in optional mode, and leaves the middleware in neither.
C11_ExceptionIsFailure ==
    (stage = "gated" /\ RaisedInGate)
        => /\ mode = "authenticate" => (res.status = 401 /\ nextLog = << >>)
           /\ mode = "optional" => (Len(nextLog) = 1 /\ ~user.set)
           /\ ~escaped

\* C11, as long as the calls of next return
C11_WhenNextReturns ==
    (stage = "gated" /\ RaisedInGate /\ (nextLog # << >> => nextLog[1] = "ok"))
        => /\ mode = "authenticate" => (res.status = 401 /\ nextLog = << >>)
           /\ mode = "optional" => (Len(nextLog) = 1 /\ ~user.set /\ res.status = 0)
           /\ ~escaped

\* the request has a non-empty jwt cookie / a 'Bearer ' Authorization header
CookieToken(r) == r.hasCookies /\ r.jwt.present /\ r.jwt.s # Empty
BearerHeader(r) == r.authorization.present /\ StartsWith(r.authorization.s, BearerPrefix)

\* the token extractToken returns for the request in flight is the cookie's
\* whenever there is one, and the header's only when there is none
CookieFirst ==
    /\ (CookieToken(req) /\ BearerHeader(req)) => ExtractToken(req) = Found(req.jwt.s)
    /\ (BearerHeader(req) /\ ExtractToken(req) = Found(Substring(req.authorization.s, 7))
           /\ Substring(req.authorization.s, 7) # Empty)
          => (~CookieToken(req) \/ req.jwt.s = Substring(req.authorization.s, 7))
    /\ (stage = "gated" /\ CookieToken(req) /\ BearerHeader(req))
          => (user.set <=> ValidToken(req.jwt.s, gateAt))

\* C12: with both a non-empty jwt cookie and a Bearer header extractToken
\* returns the cookie value, the header token is used only when the cookie is
\* absent or empty, and the gates, which extract, leave the request as it was
\* (so that extracting again returns the same value).
C12_CookiePrecedence ==
    /\ []CookieFirst
    /\ [][(stage = "arrived" /\ stage' = "gated") => req' = req]_vars

C12_Witness ==
    /\ stage = "gated" /\ mode = "authenticate"
    /\ req.jwt = Some(TheToken) /\ req.authorization = Some(BearerPrefix \o Garbage)
    /\ user.set /\ res.status = 0

\* the three places of a handshake that can hold a token
QueryToken(h) == h.query.present /\ h.query.s # Empty
HeaderToken(h) == h.authorization.present /\ StartsWith(h.authorization.s, BearerPrefix)
AuthToken(h) == h.auth.present

SocketInFlight == stage \in {"sockArrived", "sockDone"}

\* C13 as stated: the first match wins in the order Bearer header, auth
\* payload, query string.
C13_HeaderAuthQuery ==
    SocketInFlight =>
        LET h == sock.handshake
        IN  /\ HeaderToken(h) => SocketPresented = Found(Substring(h.authorization.s, 7))
            /\ (~HeaderToken(h) /\ AuthToken(h)) => SocketPresented = Found(h.auth.s)
            /\ (~HeaderToken(h) /\ ~AuthToken(h) /\ QueryToken(h))
                  => SocketPresented = Found(h.query.s)

\* C13 as amended: the first match wins in the order query string, Bearer
\* header, auth payload; the token the gate verifies is the one so extracted.
C13_QueryHeaderAuth ==
    SocketInFlight =>
        LET h == sock.handshake
        IN  /\ QueryToken(h) => SocketPresented = Found(h.query.s)
            /\ (~QueryToken(h) /\ HeaderToken(h))
                  => SocketPresented = Found(Substring(h.authorization.s, 7))
            /\ (~QueryToken(h) /\ ~HeaderToken(h) /\ AuthToken(h))
                  => SocketPresented = Found(h.auth.s)
            /\ (~QueryToken(h) /\ ~HeaderToken(h) /\ ~AuthToken(h)) => ~SocketPresented.found
            /\ (stage = "sockDone" /\ QueryToken(h) /\ sock.isAuthenticated)
                  => ValidToken(h.query.s, gateAt)

C13_Witness ==
    /\ stage = "sockDone"
    /\ sock.handshake = Handshake(Some(Garbage), Some(BearerPrefix \o SocketToken), NoStr)
    /\ ~sock.isAuthenticated
    /\ Len(sock.nexts) = 1 /\ sock.nexts[1].err = "Invalid authentication token"

\* the header's first seven characters are exactly B e a r e r and a space
IsBearer(s) == Len(s) >= 7 /\ \A i \in 1..7 : s[i] = BearerPrefix[i]

\* C14: an Authorization header yields a token iff it starts with exactly
\* 'Bearer ' ('bearer x', 'BEARER x', 'Basic x' yield none), the token is the
\* header without those 7 characters, and the required gate answers a header
\* that is only 'Bearer ' with 401 without invoking next.
C14_BearerMatching ==
    (stage \in {"arrived", "gated", "authorized"} /\ ~CookieToken(req) /\ req.hasHeaders)
        => /\ Presented.found <=> (req.authorization.present /\ IsBearer(req.authorization.s))
           /\ Presented.found
                 => /\ BearerPrefix \o Presented.tok = req.authorization.s
                    /\ Len(Presented.tok) = Len(req.authorization.s) - 7
           /\ (RequiredGateRan /\ req.authorization = Some(BearerPrefix))
                 => (res.status = 401 /\ nextLog = << >> /\ ~user.set)

C14_Witness ==
    /\ RequiredGateRan /\ ~CookieToken(req)
    /\ req.authorization = Some(BearerPrefix)
    /\ res = Json(401, "Access token required") /\ nextLog = << >>

\* the call recorded last is op, and nothing happened since it returned
JustCalled(op) == blCall.op = op /\ blCall.at = now

\* the key a Revocation Entry of tok is stored under
EntryKey(tok) == << "jwt_blacklist:", "sha256" >> \o tok

\* the entries the store holds for tok
EntriesOf(tok) == { e \in store : e.key = EntryKey(tok) }

\* C15: addToBlacklist(token, expiresAt, reason) stores exactly one entry
\* under 'jwt_blacklist:' + sha256hex(token), with the time to live
\* max(expiresAt - now, 1): at least 1, and for expiresAt > now the entry
\* expires no later than the token.
C15_EntryTtl ==
    /\ \A e \in store :
          LET ttl == e.expireAt - e.blacklistedAt
              left == e.expiresAt - e.blacklistedAt
          IN  /\ ttl = (IF left >= 1 THEN left ELSE 1)
              /\ ttl >= 1
              /\ left > 0 => e.expireAt <= e.expiresAt
              /\ \E t \in RevokeTokens : e.key = EntryKey(t)
    /\ (JustCalled("addToBlacklist") /\ blCall.outcome = "resolved")
          => /\ Cardinality(EntriesOf(blCall.token)) = 1
             /\ \A e \in EntriesOf(blCall.token) : e.blacklistedAt = now /\ e.reason = "logout"

C15_Witness ==
    /\ JustCalled("addToBlacklist") /\ blCall.outcome = "resolved" /\ now = 2
    /\ \E e \in EntriesOf(blCall.token) : e.expiresAt = 1 /\ e.expireAt = 3

\* C16: addToBlacklist rejects whenever the store write fails, the service's
\* connection not being established included, and resolves only if the
\* entry was persisted.
C16_WriteErrorsSurface ==
    blCall.op = "addToBlacklist"
        => /\ ~blCall.reached => blCall.outcome = "rejected"
           /\ blCall.outcome = "resolved"
                 => (blCall.reached /\ (blCall.at = now => EntriesOf(blCall.token) # {}))
           /\ blCall.outcome \in {"resolved", "rejected"}

C16_Witness ==
    /\ blCall.op = "addToBlacklist" /\ blCall.outcome = "rejected"
    /\ blClient = "connecting" /\ store = {} /\ ledger = {}

\* C17: isBlacklisted returns true only when the store holds a live entry
\* under the token's key; when the read fails it returns false, and it never
\* throws, whatever the state of the connection.
C17_ReadFailsOpen ==
    blCall.op = "isBlacklisted"
        => /\ blCall.outcome = "resolved"
           /\ ~blCall.reached => ~blCall.result
           /\ (blCall.result /\ blCall.at = now) => EntriesOf(blCall.token) # {}

C17_Witness ==
    /\ JustCalled("isBlacklisted") /\ blClient = "connecting"
    /\ EntriesOf(blCall.token) # {}
    /\ blCall.outcome = "resolved" /\ ~blCall.result

\* the token was revoked, its time to live has not elapsed, it was not removed
StillRevoked(tok) == \E h \in ledger : h.token = tok /\ h.until > now

\* C18 as stated: after addToBlacklist succeeded isBlacklisted(token) returns
\* true as long as the time to live has not elapsed and the entry was not
\* removed, and false afterwards; no other token is affected.
C18_RoundTrip ==
    JustCalled("isBlacklisted") => (blCall.result <=> StillRevoked(blCall.token))

\* C18 as amended: the same, for the calls of isBlacklisted whose read
\* reaches the store.
C18_RoundTripWhenRead ==
    (JustCalled("isBlacklisted") /\ blCall.reached)
        => (blCall.result <=> StillRevoked(blCall.token))

C18_Witness ==
    /\ JustCalled("isBlacklisted") /\ blCall.reached /\ blCall.token = TheToken
    /\ ~blCall.result /\ now = 2
    /\ StillRevoked(NoExpToken)
    /\ \E e \in EntriesOf(NoExpToken) : e.blacklistedAt = 0

\* C19: safeRedisOperation returns the fallback without invoking the
\* operation when the helper is unavailable, the fallback when the operation
\* throws or rejects, the operation's result otherwise, and never rejects.
C19_SafeRead ==
    cacheCall.op = "safeRedisOperation"
        => /\ ~svc.isRedisAvailable
                 => (~cacheCall.invoked /\ cacheCall.returned = cacheCall.fallback)
           /\ (svc.isRedisAvailable /\ cacheCall.opDoes \in {"throw", "reject"})
                 => cacheCall.returned = cacheCall.fallback
           /\ (svc.isRedisAvailable /\ cacheCall.opDoes = "resolve")
                 => (cacheCall.invoked /\ cacheCall.returned = cacheCall.value)
           /\ cacheCall.outcome = "resolved"

C19_Witness ==
    /\ cacheCall.op = "safeRedisOperation" /\ ~svc.isRedisAvailable
    /\ cacheCall.opDoes = "resolve" /\ cacheCall.value = "hit" /\ cacheCall.fallback = "miss"
    /\ ~cacheCall.invoked /\ cacheCall.returned = "miss"

\* C20: safeRedisWrite returns true iff the helper was available and the
\* operation completed; false, without invoking it, when unavailable; false
\* when it throws; and it never rejects.
C20_SafeWrite ==
    cacheCall.op = "safeRedisWrite"
        => /\ cacheCall.returned = "true"
                 <=> (svc.isRedisAvailable /\ cacheCall.opDoes = "resolve")
           /\ cacheCall.returned \in {"true", "false"}
           /\ ~svc.isRedisAvailable => ~cacheCall.invoked
           /\ cacheCall.outcome = "resolved"

C20_Witness ==
    /\ cacheCall.op = "safeRedisWrite" /\ svc.isRedisAvailable
    /\ cacheCall.opDoes = "reject" /\ cacheCall.invoked
    /\ cacheCall.returned = "false" /\ cacheCall.outcome = "resolved"

\* C21: when an operation run through safeRedisOperation or safeRedisWrite
\* fails while the helper is available, the helper becomes unavailable:
\* isRedisEnabled() is false after the call.
C21_StickyDegradation ==
    (cacheCall.op \in {"safeRedisOperation", "safeRedisWrite"} /\ cacheCall.invoked
        /\ cacheCall.opDoes \in {"throw", "reject"})
        => ~svc.isRedisAvailable

\* C22: nothing but reconnectRedis turns the helper from unavailable to
\* available, and reconnectRedis resolves with true iff the helper is
\* available afterwards.
C22_ReconnectOnly ==
    /\ [](cacheCall.op = "reconnectRedis"
            => /\ cacheCall.outcome = "resolved"
               /\ cacheCall.returned = "true" <=> svc.isRedisAvailable
               /\ cacheCall.returned \in {"true", "false"})
    /\ [][(svc.constructed /\ ~svc.isRedisAvailable /\ svc'.isRedisAvailable)
            => cacheCall'.op = "reconnectRedis"]_vars

C22_Witness ==
    /\ cacheCall.op = "reconnectRedis" /\ cacheCall.value = "unavailable"
    /\ cacheCall.returned = "true" /\ svc.isRedisAvailable

\* the witness of the other outcome: the manager is still not connected
C22_StillUnavailable ==
    /\ cacheCall.op = "reconnectRedis" /\ cacheCall.value = "unavailable"
    /\ cacheCall.returned = "false" /\ ~svc.isRedisAvailable

\* the clients whose socket is open (connecting or connected)
OpenClients == { c \in 1..Len(clients) : clients[c] \in {"connecting", "ready", "closing"} }

\* C23: whatever the interleaving of connect() calls, at most one client is
\* created and open at a time.
C23_SingleConnection == Cardinality(OpenClients) <= 1

\* C28: getClient() returns a client only if that very client is connected at
\* that moment; otherwise it throws.
C28_ClientIsConnected ==
    ~GetClient(mgr).threw => clients[GetClient(mgr).client] = "ready"

\* C29: while the helper reports isRedisEnabled() = true, the client it hands
\* to operations is the manager's current client and the manager reports it
\* connected.
C29_HelperFollowsManager ==
    svc.isRedisAvailable => (svc.redisClient = mgr.client /\ mgr.isConnected)

\* the socket is authenticated with a user
SocketAuthenticated == sock.isAuthenticated /\ sock.user.set

\* C24: hasPermission(socket, p) is true iff the socket is authenticated with
\* a user and p is among its permissions or 'admin' among its roles;
\* hasRole(socket, r) is true iff the socket is authenticated with a user and
\* r is among its roles, with no admin rule.
C24_SocketChecks ==
    /\ sockQuery.op = "hasPermission"
        => (sockQuery.answer <=>
              /\ SocketAuthenticated
              /\ \/ \E i \in 1..Len(sock.user.permissions) :
                        sock.user.permissions[i] = sockQuery.name
                 \/ \E i \in 1..Len(sock.user.roles) : sock.user.roles[i] = "admin")
    /\ sockQuery.op = "hasRole"
        => (sockQuery.answer <=>
              /\ SocketAuthenticated
              /\ \E i \in 1..Len(sock.user.roles) : sock.user.roles[i] = sockQuery.name)

\* an administrator without the permission is granted it
C24_Witness ==
    /\ sockQuery.op = "hasPermission" /\ sockQuery.answer
    /\ sock.user.permissions = << >> /\ sock.user.roles = << "admin" >>

\* an administrator asked for another role is refused
C24_NoRoleBypass ==
    /\ sockQuery.op = "hasRole" /\ ~sockQuery.answer /\ sockQuery.name = "operator"
    /\ SocketAuthenticated /\ sock.user.roles = << "admin" >>

\* C25: per request each gate produces one outcome, also when next throws
\* synchronously: next is invoked at most once, and the required gate writes
\* no 401 after it has invoked next.
C25_OneOutcome ==
    stage = "gated"
        => /\ Len(nextLog) <= 1
           /\ (mode = "authenticate" /\ nextLog # << >>) => res.status = 0

\* the required gate attached an identity and its call of next returned
RequiredGateSucceeded ==
    /\ mode = "authenticate" /\ user.set
    /\ nextLog # << >> /\ nextLog[Len(nextLog)] = "ok"

\* C26: on a request on which the required gate succeeded, a permission or
\* role middleware that follows never answers 401 'Authentication required'.
C26_IdentityIsAccepted ==
    (PermissionRan /\ RequiredGateSucceeded)
        => ~(res.status = 401 /\ res.message = "Authentication required")

\* C27: the socket gate calls next exactly once per connection attempt; when
\* next was called with an error the socket is unauthenticated without a
\* user; isAuthenticated is true only if the user is set and next was called
\* without an error.
C27_SocketOutcome ==
    SocketGateRan
        => /\ Len(sock.nexts) = 1
           /\ (\E i \in 1..Len(sock.nexts) : sock.nexts[i].err # "none")
                 => (~sock.isAuthenticated /\ ~sock.user.set)
           /\ sock.isAuthenticated
                 => (sock.user.set /\ \A i \in 1..Len(sock.nexts) : sock.nexts[i].err = "none")

\* C30: cleanupExpiredTokens never removes an entry whose time to live has
\* not elapsed, and the number it returns is the number of keys it deleted.
C30_CleanupExact ==
    /\ ~cleanup.removedLive
    /\ (cleanup.pc = "done" /\ cleanup.outcome = "resolved")
          => cleanup.returned = cleanup.deleted

====
